---- MODULE Spec2Model ----
(***************************************************************************)
(* One run of the NEAR marketplace submit action (src/src/index.js):       *)
(* read the project manifest, build the payload, validate it, look up an   *)
(* existing listing and create or update it.                               *)
(*                                                                         *)
(* Text is a sequence of tokens: a token is one character (" ", ",", ".",  *)
(* a digit) or a word taken as a unit ("my-tool", "refs/tags/", "/v1").    *)
(* A JavaScript value is a record whose field k is its type.               *)
(***************************************************************************)
EXTENDS Integers, Sequences, FiniteSets, TLC

VARIABLES
    inputs,      \* core.getInput: input name -> text ("" when not supplied)
    files,       \* the project directory: exists, package.json, pyproject.toml, Cargo.toml
    context,     \* github.context: ref, owner, repo, actor
    pc,          \* where run() stands
    metadata,    \* what readProjectMetadata returned
    payload,     \* the payload run() built
    validation,  \* what validatePayload returned
    listingId,   \* what findExistingListing returned
    requests,    \* the outbound requests issued so far, in order
    responses,   \* the answers the remote gave, in order
    outputs,     \* core.setOutput: output name -> value
    failed,      \* core.setFailed: the failure reported
    log          \* core.info: the "Found <manifest>" lines, in order

vars == <<inputs, files, context, pc, metadata, payload, validation,
          listingId, requests, responses, outputs, failed, log>>

----------------------------------------------------------------------------
(* JavaScript values *)

Undefined == [k |-> "undefined"]
Null == [k |-> "null"]
Str(s) == [k |-> "string", s |-> s]
Num(n) == [k |-> "number", n |-> n]

\* ToBoolean: what `!x`, `x || y` and `x ? a : b` test.
Truthy(v) ==
    CASE v.k = "undefined" -> FALSE
      [] v.k = "null" -> FALSE
      [] v.k = "string" -> v.s # <<>>
      [] v.k = "number" -> v.n # 0
      [] OTHER -> TRUE

\* a || b
OrElse(a, b) == IF Truthy(a) THEN a ELSE b

\* typeof v === 'object' (true of null, of arrays and of objects)
TypeofObject(v) == v.k \in {"null", "object", "array"}

\* v.field: undefined when v has no such property.  A read on null or
\* undefined is a TypeError: the callers test Throws(v) first.
Throws(v) == v.k \in {"null", "undefined"}
Get(v, field) ==
    IF v.k = "object" /\ field \in DOMAIN v.f THEN v.f[field] ELSE Undefined

Obj(fields) == [k |-> "object", f |-> fields]
Arr(items) == [k |-> "array", a |-> items]

----------------------------------------------------------------------------
(* Text *)

Digits == {"0", "1", "2", "3", "4", "5", "6", "7", "8", "9"}
IsSpace(c) == c \in {" ", "\t", "\n"}

RECURSIVE TrimStart(_)
TrimStart(s) ==
    IF s # <<>> /\ IsSpace(Head(s)) THEN TrimStart(Tail(s)) ELSE s

RECURSIVE TrimEnd(_)
TrimEnd(s) ==
    IF s # <<>> /\ IsSpace(s[Len(s)]) THEN TrimEnd(SubSeq(s, 1, Len(s) - 1)) ELSE s

\* String.prototype.trim
Trim(s) == TrimEnd(TrimStart(s))

\* String(v), for the values a payload field can hold
ToText(v) ==
    CASE v.k = "string" -> v.s
      [] v.k = "null" -> <<"null">>
      [] v.k = "undefined" -> <<"undefined">>
      [] v.k = "number" -> <<ToString(v.n)>>
      [] OTHER -> <<"[object Object]">>

\* s.split(sep): the pieces between the separators, empty pieces kept
RECURSIVE SplitFrom(_, _, _)
SplitFrom(s, sep, cur) ==
    IF s = <<>> THEN <<cur>>
    ELSE IF Head(s) = sep THEN <<cur>> \o SplitFrom(Tail(s), sep, <<>>)
    ELSE SplitFrom(Tail(s), sep, Append(cur, Head(s)))

Split(s, sep) == SplitFrom(s, sep, <<>>)

\* s.replace(tok, ''): the first occurrence of tok removed, wherever it is
RECURSIVE RemoveFirst(_, _)
RemoveFirst(s, tok) ==
    IF s = <<>> THEN s
    ELSE IF Head(s) = tok THEN Tail(s)
    ELSE <<Head(s)>> \o RemoveFirst(Tail(s), tok)

\* the pieces of a list of texts that are not empty: .filter(Boolean)
RECURSIVE FilterNonEmpty(_)
FilterNonEmpty(l) ==
    IF l = <<>> THEN l
    ELSE IF Head(l) = <<>> THEN FilterNonEmpty(Tail(l))
    ELSE <<Head(l)>> \o FilterNonEmpty(Tail(l))

RECURSIVE SkipDigits(_)
SkipDigits(s) ==
    IF s # <<>> /\ Head(s) \in Digits THEN SkipDigits(Tail(s)) ELSE s

\* /^\d+/.test(s): the dot and the digits after it not asked for
LooksLikeSemverNoDot(s) == s # <<>> /\ Head(s) \in Digits

\* /^\d+\.\d+/.test(s)
LooksLikeSemver(s) ==
    /\ s # <<>>
    /\ Head(s) \in Digits
    /\ LET rest == SkipDigits(s)
       IN /\ Len(rest) >= 2
          /\ rest[1] = "."
          /\ rest[2] \in Digits

----------------------------------------------------------------------------
(* Manifest readers *)

\* What a call gives: a value, null, or an exception.
Ok(v, lines) == [t |-> "ok", v |-> v, log |-> lines]
Absent == [t |-> "null", log |-> <<>>]
Throw(e, lines) == [t |-> "throw", error |-> e, log |-> lines]

Quote == "\""

\* toml.match(new RegExp(`${key}\s*=\s*"([^"]+)"`)): the first assignment
\* key = "value" whose value is not empty.
RECURSIVE Extract(_, _)
Extract(toml, key) ==
    IF toml = <<>> THEN Undefined
    ELSE LET line == Head(toml)
         IN IF "val" \in DOMAIN line /\ line.key = key /\ line.val # <<>>
            THEN Str(line.val)
            ELSE Extract(Tail(toml), key)

\* the first assignment key = [ ... ]; with nonEmpty, one whose brackets
\* hold at least one character ([^\]]+)
RECURSIVE MatchList(_, _, _)
MatchList(toml, key, nonEmpty) ==
    IF toml = <<>> THEN Undefined
    ELSE LET line == Head(toml)
         IN IF "list" \in DOMAIN line /\ line.key = key
               /\ (nonEmpty => line.list # <<>>)
            THEN Str(line.list)
            ELSE MatchList(Tail(toml), key, nonEmpty)

\* k.replace(/^"|"$/g, '')
StripQuoteEnds(s) ==
    LET a == IF s # <<>> /\ Head(s) = Quote THEN Tail(s) ELSE s
    IN IF a # <<>> /\ a[Len(a)] = Quote THEN SubSeq(a, 1, Len(a) - 1) ELSE a

\* k.replace(/"/g, '')
RECURSIVE StripQuotes(_)
StripQuotes(s) ==
    IF s = <<>> THEN s
    ELSE IF Head(s) = Quote THEN StripQuotes(Tail(s))
    ELSE <<Head(s)>> \o StripQuotes(Tail(s))

ExtractListPy(toml, key) ==
    LET m == MatchList(toml, key, TRUE)
    IN IF m = Undefined THEN <<>>
       ELSE LET parts == Split(m.s, ",")
            IN FilterNonEmpty([i \in 1..Len(parts) |-> StripQuoteEnds(Trim(parts[i]))])

ExtractListCargo(toml, key) ==
    LET m == MatchList(toml, key, FALSE)
    IN IF m = Undefined THEN <<>>
       ELSE LET parts == Split(m.s, ",")
            IN FilterNonEmpty([i \in 1..Len(parts) |-> StripQuotes(Trim(parts[i]))])

\* typeof x === 'object' ? x.sub : x
Unwrap(x, sub) == IF TypeofObject(x) THEN Get(x, sub) ELSE x

\* readFromPackageJson taking a file it cannot parse for a missing one
readFromPackageJsonLenient(fs) ==
    IF ~fs.pkg.exists \/ ~fs.pkg.json THEN Absent
    ELSE LET pkg == fs.pkg.doc
         IN IF Throws(pkg) THEN Absent
            ELSE Ok([name |-> Get(pkg, "name"),
                     version |-> Get(pkg, "version"),
                     description |-> Get(pkg, "description"),
                     homepage |-> Get(pkg, "homepage"),
                     repository |-> Get(pkg, "repository"),
                     keywords |-> <<>>,
                     author |-> Get(pkg, "author"),
                     license |-> Get(pkg, "license")],
                    <<"Found package.json">>)

readFromPackageJson(fs) ==
    IF ~fs.pkg.exists THEN Absent
    ELSE IF ~fs.pkg.json THEN Throw([kind |-> "ParseError"], <<>>)
    ELSE LET pkg == fs.pkg.doc
             repository == Get(pkg, "repository")
             author == Get(pkg, "author")
             keywords == Get(pkg, "keywords")
         IN IF \/ Throws(pkg)
               \/ TypeofObject(repository) /\ Throws(repository)
               \/ TypeofObject(author) /\ Throws(author)
            THEN Throw([kind |-> "TypeError"], <<"Found package.json">>)
            ELSE Ok([name |-> Get(pkg, "name"),
                     version |-> Get(pkg, "version"),
                     description |-> Get(pkg, "description"),
                     homepage |-> Get(pkg, "homepage"),
                     repository |-> Unwrap(repository, "url"),
                     keywords |-> IF keywords.k = "array" THEN keywords.a ELSE <<>>,
                     author |-> Unwrap(author, "name"),
                     license |-> Get(pkg, "license")],
                    <<"Found package.json">>)

readFromPyproject(fs) ==
    IF ~fs.py.exists THEN Absent
    ELSE LET toml == fs.py.lines
         IN Ok([name |-> Extract(toml, "name"),
                version |-> Extract(toml, "version"),
                description |-> Extract(toml, "description"),
                homepage |-> OrElse(Extract(toml, "homepage"), Extract(toml, "\"Homepage\"")),
                repository |-> OrElse(Extract(toml, "repository"), Extract(toml, "\"Repository\"")),
                keywords |-> ExtractListPy(toml, "keywords"),
                author |-> Undefined,
                license |-> Extract(toml, "license")],
               <<"Found pyproject.toml">>)

readFromCargo(fs) ==
    IF ~fs.cargo.exists THEN Absent
    ELSE LET toml == fs.cargo.lines
         IN Ok([name |-> Extract(toml, "name"),
                version |-> Extract(toml, "version"),
                description |-> Extract(toml, "description"),
                homepage |-> Extract(toml, "homepage"),
                repository |-> Extract(toml, "repository"),
                keywords |-> ExtractListCargo(toml, "keywords"),
                author |-> Undefined,
                license |-> Extract(toml, "license")],
               <<"Found Cargo.toml">>)

\* readProjectMetadata asking pyproject.toml before package.json
readProjectMetadataPyFirst(fs) ==
    LET b == readFromPyproject(fs)
    IN IF b.t # "null" THEN b
       ELSE LET a == readFromPackageJson(fs)
            IN IF a.t # "null" THEN a
               ELSE LET c == readFromCargo(fs)
                    IN IF c.t # "null" THEN c
                       ELSE Throw([kind |-> "NoManifest"], <<>>)

\* a || b || c: the next reader runs only when the one before returned null;
\* an exception of a reader ends the call.
readProjectMetadata(fs) ==
    LET a == readFromPackageJson(fs)
    IN IF a.t # "null" THEN a
       ELSE LET b == readFromPyproject(fs)
            IN IF b.t # "null" THEN b
               ELSE LET c == readFromCargo(fs)
                    IN IF c.t # "null" THEN c
                       ELSE Throw([kind |-> "NoManifest"], <<>>)

----------------------------------------------------------------------------
(* Payload *)

DEFAULT_MARKETPLACE_API == <<"https://market.near.ai", "/v1">>

REQUIRED_FIELDS == <<"name", "version", "description", "category", "repository">>

OPTIONAL_FIELDS == <<"homepage", "long_description", "changelog", "license">>

\* core.getInput(name): the text supplied, '' when none was
getInput(inp, name) == Str(inp[name])

\* `https://github.com/${owner}/${repo}`
repoUrl(ctx) == <<"https://github.com/", ctx.owner, "/", ctx.repo>>

\* buildTags falling back to the keywords when the override leaves no entry
buildTagsKeywordsWhenEmpty(inp, meta) ==
    LET parts == Split(getInput(inp, "tags").s, ",")
        kept == FilterNonEmpty([i \in 1..Len(parts) |-> Trim(parts[i])])
    IN IF kept # <<>> THEN kept ELSE meta.keywords

\* customTags ? customTags.split(',').map(t => t.trim()).filter(Boolean)
\*            : (metadata.keywords || [])
buildTags(inp, meta) ==
    LET customTags == getInput(inp, "tags")
    IN IF Truthy(customTags)
       THEN LET parts == Split(customTags.s, ",")
            IN FilterNonEmpty([i \in 1..Len(parts) |-> Trim(parts[i])])
       ELSE meta.keywords

\* the manifest value taken before the input
MergeManifestFirst(override, fromManifest, default) ==
    OrElse(OrElse(fromManifest, override), default)

\* input || manifest value || default
Merge(override, fromManifest, default) == OrElse(OrElse(override, fromManifest), default)

buildPayload(inp, meta, ctx) ==
    [name |-> Merge(getInput(inp, "name"), meta.name, Str(<<>>)),
     version |-> Merge(getInput(inp, "version"), meta.version,
                       Str(RemoveFirst(ctx.ref, "refs/tags/"))),
     description |-> Merge(getInput(inp, "description"), meta.description, Str(<<>>)),
     long_description |-> OrElse(getInput(inp, "long-description"), Str(<<>>)),
     category |-> OrElse(getInput(inp, "category"), Str(<<"development">>)),
     homepage |-> Merge(getInput(inp, "homepage"), meta.homepage, Str(<<>>)),
     repository |-> Merge(getInput(inp, "repository"), meta.repository, Str(repoUrl(ctx))),
     license |-> Merge(getInput(inp, "license"), meta.license, Str(<<"MIT">>)),
     changelog |-> OrElse(getInput(inp, "changelog"), Str(<<>>)),
     pricing |-> OrElse(getInput(inp, "pricing"), Str(<<"free">>)),
     min_near_version |-> OrElse(getInput(inp, "min-near-version"), Str(<<>>)),
     tags |-> buildTags(inp, meta),
     author |-> OrElse(meta.author, Str(<<ctx.actor>>)),
     release_tag |-> Str(ctx.ref)]

----------------------------------------------------------------------------
(* Validation *)

\* IsBlank without the trim: a value of spaces passes
IsBlankUntrimmed(v) == ~Truthy(v)

\* !payload[field] || String(payload[field]).trim() === ''
IsBlank(v) == ~Truthy(v) \/ Trim(ToText(v)) = <<>>

RECURSIVE BlankFields(_, _)
BlankFields(p, fields) ==
    IF fields = <<>> THEN <<>>
    ELSE (IF IsBlank(p[Head(fields)]) THEN <<Head(fields)>> ELSE <<>>)
         \o BlankFields(p, Tail(fields))

\* payload.version && !/^\d+\.\d+/.test(payload.version)
VersionWarning(p) ==
    IF Truthy(p.version) /\ ~LooksLikeSemver(ToText(p.version))
    THEN <<[kind |-> "semver", field |-> "version"]>>
    ELSE <<>>

\* validatePayload stopping at the first required field that is blank
validatePayloadFirstErrorOnly(p) ==
    LET req == BlankFields(p, REQUIRED_FIELDS)
        opt == BlankFields(p, OPTIONAL_FIELDS)
    IN [errors |-> IF req = <<>> THEN <<>> ELSE <<[kind |-> "required", field |-> Head(req)]>>,
        warnings |-> [i \in 1..Len(opt) |-> [kind |-> "optional", field |-> opt[i]]]
                     \o VersionWarning(p)]

validatePayload(p) ==
    LET req == BlankFields(p, REQUIRED_FIELDS)
        opt == BlankFields(p, OPTIONAL_FIELDS)
    IN [errors |-> [i \in 1..Len(req) |-> [kind |-> "required", field |-> req[i]]],
        warnings |-> [i \in 1..Len(opt) |-> [kind |-> "optional", field |-> opt[i]]]
                     \o VersionWarning(p)]

----------------------------------------------------------------------------
(* HTTP *)

SliceLen == 200

\* body.slice(0, n)
Slice(s, n) == SubSeq(s, 1, IF Len(s) < n THEN Len(s) ELSE n)

\* A response body is its raw text and, when the text is JSON, the value it
\* parses to.
JsonBody(raw, val) == [raw |-> raw, json |-> TRUE, val |-> val]
TextBody(raw) == [raw |-> raw, json |-> FALSE]

\* What the remote does with a request: the transport fails, or it answers.
NetworkError == [t |-> "error"]
Answer(code, body) == [t |-> "response", statusCode |-> code, body |-> body]

\* try { parsed = JSON.parse(body); } catch { parsed = body; }
parseBody(body) == IF body.json THEN body.val ELSE Str(body.raw)

\* JSON.stringify(v)
Stringify(v) == [k |-> "json", of |-> v]

\* How the promise of httpsRequest settles on the remote's answer.  The 'end'
\* listener runs outside the promise executor: an exception it throws
\* (parsed.message on null) is not a rejection, it is uncaught.
httpsRequest(url, answer) ==
    IF answer.t = "error"
    THEN [t |-> "reject", error |-> [kind |-> "Network"]]
    ELSE LET parsed == parseBody(answer.body)
         IN IF answer.statusCode >= 200 /\ answer.statusCode < 300
            THEN [t |-> "resolve", v |-> [statusCode |-> answer.statusCode, body |-> parsed]]
            ELSE IF TypeofObject(parsed) /\ Throws(parsed)
            THEN [t |-> "uncaught", error |-> [kind |-> "TypeError"]]
            ELSE [t |-> "reject",
                  error |-> [kind |-> "Http",
                             statusCode |-> answer.statusCode,
                             detail |-> IF TypeofObject(parsed)
                                        THEN OrElse(OrElse(Get(parsed, "message"),
                                                           Get(parsed, "error")),
                                                    Stringify(parsed))
                                        ELSE Str(Slice(answer.body.raw, SliceLen)),
                             url |-> url]]

\* encodeURIComponent, on the tokens the model's names are made of
encodeURIComponent(s) == [i \in 1..Len(s) |-> IF s[i] = " " THEN "%20" ELSE s[i]]

\* core.getInput('marketplace-url') || DEFAULT_MARKETPLACE_API
marketplaceApi(inp) == OrElse(getInput(inp, "marketplace-url"), Str(DEFAULT_MARKETPLACE_API)).s

lookupRequest(name, api) ==
    [method |-> "GET",
     url |-> api \o <<"/listings?name=">> \o encodeURIComponent(ToText(name)),
     body |-> Null]

\* x.length > 0
HasItems(x) ==
    CASE x.k = "array" -> Len(x.a) > 0
      [] x.k = "string" -> Len(x.s) > 0
      [] OTHER -> FALSE

\* x[0]
First(x) ==
    CASE x.k = "array" /\ Len(x.a) > 0 -> x.a[1]
      [] x.k = "string" /\ Len(x.s) > 0 -> Str(<<x.s[1]>>)
      [] OTHER -> Undefined

\* What findExistingListing returns once its request has settled: a rejection
\* and an exception of the shape test are caught and give null.
findExistingListing(settled) ==
    IF settled.t = "reject" THEN Null
    ELSE LET body == settled.v.body
             data == Get(body, "data")
         IN IF Truthy(body) /\ Truthy(data) /\ HasItems(data)
            THEN IF Throws(First(data)) THEN Null ELSE Get(First(data), "id")
            ELSE Null

\* submitToMarketplace testing listingId !== null instead of its truthiness
submitRequestNullTest(p, id, api) ==
    [method |-> IF id # Null THEN "PUT" ELSE "POST",
     url |-> IF id # Null THEN api \o <<"/listings", "/">> \o ToText(id)
             ELSE api \o <<"/listings">>,
     body |-> p]

\* The request submitToMarketplace sends.
submitRequest(p, id, api) ==
    [method |-> IF Truthy(id) THEN "PUT" ELSE "POST",
     url |-> IF Truthy(id) THEN api \o <<"/listings", "/">> \o ToText(id)
             ELSE api \o <<"/listings">>,
     body |-> p]

\* result.data?.id
OptionalDataId(result) ==
    LET data == Get(result, "data")
    IN IF Throws(data) THEN Undefined ELSE Get(data, "id")

\* result.id || result.data?.id || listingId || 'unknown'
finalId(result, id) ==
    OrElse(OrElse(OrElse(Get(result, "id"), OptionalDataId(result)), id), Str(<<"unknown">>))

\* `${marketplaceApi.replace('/v1', '')}/listing/${finalId}`
publicUrl(api, id) == RemoveFirst(api, "/v1") \o <<"/listing/">> \o ToText(id)

----------------------------------------------------------------------------
(* The inputs, project directories and remote answers of the model *)

InputNames ==
    {"marketplace-url", "api-key", "dry-run", "validate-only", "update-existing",
     "fail-on-warning", "name", "version", "description", "long-description",
     "category", "homepage", "repository", "license", "changelog", "pricing",
     "min-near-version", "tags"}

NoInputs == [n \in InputNames |-> <<>>]

KeyOnly == [NoInputs EXCEPT !["api-key"] = <<"secret">>]

\* every payload field overridden: a payload without warnings
FullOverrides ==
    [KeyOnly EXCEPT !["marketplace-url"] = <<"https://cat.example", "/v1">>,
                    !["name"] = <<"my", " ", "app">>,
                    !["version"] = <<"2", ".", "0">>,
                    !["description"] = <<"An app">>,
                    !["long-description"] = <<"A longer text">>,
                    !["category"] = <<"ai-tools">>,
                    !["homepage"] = <<"https://app.example">>,
                    !["repository"] = <<"https://git.example/app">>,
                    !["license"] = <<"Apache-2.0">>,
                    !["changelog"] = <<"Fixes">>,
                    !["pricing"] = <<"paid">>,
                    !["min-near-version"] = <<"1", ".", "0">>,
                    !["tags"] = <<"a", ",", " ", "b", " ", ",", "c">>]

SomeOverrides ==
    [KeyOnly EXCEPT !["version"] = <<"latest">>,
                    !["description"] = <<"From the workflow">>]

OverrideProfiles == {NoInputs, KeyOnly, FullOverrides, SomeOverrides}

DryRunValues == {<<>>, <<"true">>}
ValidateOnlyValues == {<<>>, <<"true">>}
UpdateExistingValues == {<<>>, <<"true">>, <<"false">>}
FailOnWarningValues == {<<>>, <<"true">>}

PkgFull ==
    Obj([name |-> Str(<<"pkg-tool">>),
         version |-> Str(<<"1", ".", "2", ".", "3">>),
         description |-> Str(<<"A node tool">>),
         homepage |-> Str(<<"https://pkg.example">>),
         repository |-> Obj([type |-> Str(<<"git">>), url |-> Str(<<"https://github.com/a/b.git">>)]),
         keywords |-> Arr(<< <<"near">>, <<"tool">> >>),
         author |-> Obj([name |-> Str(<<"Alice">>)]),
         license |-> Str(<<"ISC">>)])

\* no version, no description
PkgBare == Obj([name |-> Str(<<"pkg-tool">>), author |-> Str(<<"Bob">>)])

\* present but empty or blank values
PkgBlank ==
    Obj([name |-> Str(<<" ">>),
         version |-> Str(<<>>),
         description |-> Str(<<"A node tool">>),
         repository |-> Str(<<>>),
         license |-> Str(<<>>)])

PkgNullRepository ==
    Obj([name |-> Str(<<"pkg-tool">>),
         version |-> Str(<<"1", ".", "2", ".", "3">>),
         description |-> Str(<<"A node tool">>),
         repository |-> Null])

PkgFiles ==
    {[exists |-> FALSE],
     [exists |-> TRUE, json |-> FALSE]}
    \cup {[exists |-> TRUE, json |-> TRUE, doc |-> d] :
            d \in {PkgFull, PkgBare, PkgBlank, PkgNullRepository, Null}}

PyLines ==
    << [key |-> "name", val |-> <<"py-tool">>],
       [key |-> "version", val |-> <<"0", ".", "9">>],
       [key |-> "description", val |-> <<>>],
       [key |-> "description", val |-> <<"A python tool">>],
       [key |-> "keywords", list |-> <<Quote, "ai", Quote, ",", " ", Quote, "ml", Quote>>],
       [key |-> "\"Homepage\"", val |-> <<"https://py.example">>] >>

PyFiles == {[exists |-> FALSE], [exists |-> TRUE, lines |-> PyLines]}

CargoLines ==
    << [key |-> "name", val |-> <<"cargo-tool">>],
       [key |-> "version", val |-> <<"0", ".", "1", ".", "0">>],
       [key |-> "description", val |-> <<"A rust tool">>],
       [key |-> "keywords", list |-> <<>>],
       [key |-> "license", val |-> <<"MIT OR Apache-2.0">>] >>

CargoFiles == {[exists |-> FALSE], [exists |-> TRUE, lines |-> CargoLines]}

\* A project directory that does not exist holds no manifest.
Projects ==
    {[dir |-> FALSE, pkg |-> [exists |-> FALSE], py |-> [exists |-> FALSE],
      cargo |-> [exists |-> FALSE]]}
    \cup {[dir |-> TRUE, pkg |-> a, py |-> b, cargo |-> c] :
            a \in PkgFiles, b \in PyFiles, c \in CargoFiles}

Refs == {<<"refs/tags/", "v", "1", ".", "0">>, <<"refs/heads/main">>, <<"refs/tags/">>}

Contexts == {[ref |-> r, owner |-> "octo", repo |-> "widget", actor |-> "octocat"] : r \in Refs}

LongText == [i \in 1..(SliceLen + 1) |-> "x"]

\* the most listings a lookup answer of the model holds
MaxListings == 2

\* { data: [ {id: 'L1'}, ..., {id: 'Ln'} ] }
Listings(n) ==
    JsonBody(<<"{data:[...]}", ToString(n)>>,
             Obj([data |-> Arr([i \in 1..n |-> Obj([id |-> Str(<<"L", ToString(i)>>)])])]))

LookupAnswers ==
    {Answer(200, Listings(n)) : n \in 0..MaxListings}
    \cup
    {NetworkError,
     Answer(200, JsonBody(<<"{data:[{id:''}]}">>,
                          Obj([data |-> Arr(<<Obj([id |-> Str(<<>>)])>>)]))),
     Answer(200, JsonBody(<<"{data:[{name:x}]}">>,
                          Obj([data |-> Arr(<<Obj([name |-> Str(<<"x">>)])>>)]))),
     Answer(200, JsonBody(<<"{data:[null]}">>, Obj([data |-> Arr(<<Null>>)]))),
     Answer(200, JsonBody(<<"{}">>, Obj(<<>>))),
     Answer(200, JsonBody(<<"null">>, Null)),
     Answer(200, TextBody(<<"OK">>)),
     Answer(404, JsonBody(<<"{message:'not found'}">>, Obj([message |-> Str(<<"not found">>)]))),
     Answer(500, TextBody(<<"Internal Server Error">>)),
     Answer(500, JsonBody(<<"null">>, Null))}

SubmitAnswers ==
    {NetworkError,
     Answer(201, JsonBody(<<"{id:N1}">>, Obj([id |-> Str(<<"N1">>)]))),
     Answer(200, JsonBody(<<"{data:{id:N2}}">>, Obj([data |-> Obj([id |-> Str(<<"N2">>)])]))),
     Answer(200, JsonBody(<<"{id:'',data:{id:N3}}">>,
                          Obj([id |-> Str(<<>>), data |-> Obj([id |-> Str(<<"N3">>)])]))),
     Answer(200, JsonBody(<<"{data:null}">>, Obj([data |-> Null]))),
     Answer(200, JsonBody(<<"{}">>, Obj(<<>>))),
     Answer(200, JsonBody(<<"null">>, Null)),
     Answer(204, TextBody(<<>>)),
     Answer(409, JsonBody(<<"{message:duplicate}">>, Obj([message |-> Str(<<"duplicate">>)]))),
     Answer(403, JsonBody(<<"{error:denied}">>, Obj([error |-> Str(<<"denied">>)]))),
     Answer(422, JsonBody(<<"{}">>, Obj(<<>>))),
     Answer(500, JsonBody(<<"[]">>, Arr(<<>>))),
     Answer(500, JsonBody(<<"null">>, Null)),
     Answer(502, JsonBody(<<"42">>, Num(42))),
     Answer(503, TextBody(LongText))}

----------------------------------------------------------------------------
(* run() *)

OutputNames == {"status", "listing-id", "listing-url", "warnings"}
Unset == [k |-> "unset"]
None == [k |-> "none"]

\* dry-run compared with the boolean true, which no input text equals
dryRunAsBoolean(inp) == FALSE

\* core.getInput('dry-run') === 'true'
dryRun(inp) == getInput(inp, "dry-run") = Str(<<"true">>)

\* validate-only never honoured
validateOnlyIgnored(inp) == FALSE

\* core.getInput('validate-only') === 'true'
validateOnly(inp) == getInput(inp, "validate-only") = Str(<<"true">>)

\* update-existing read as set only when it is 'true': unset skips the lookup
updateExistingOnlyTrue(inp) == getInput(inp, "update-existing") = Str(<<"true">>)

\* core.getInput('update-existing') !== 'false'
updateExisting(inp) == getInput(inp, "update-existing") # Str(<<"false">>)

\* fail-on-warning taken as enabled unless it is 'false'
failOnWarningUnlessFalse(inp) == getInput(inp, "fail-on-warning") # Str(<<"false">>)

\* core.getInput('fail-on-warning') === 'true'
failOnWarning(inp) == getInput(inp, "fail-on-warning") = Str(<<"true">>)

\* run() has not started: nothing read, built, sent or written.
NotStarted ==
    /\ pc = "start"
    /\ metadata = None
    /\ payload = None
    /\ validation = None
    /\ listingId = None
    /\ requests = <<>>
    /\ responses = <<>>
    /\ outputs = [n \in OutputNames |-> Unset]
    /\ failed = None
    /\ log = <<>>

Init ==
    /\ \E profile \in OverrideProfiles :
       \E d \in DryRunValues, v \in ValidateOnlyValues,
          u \in UpdateExistingValues, f \in FailOnWarningValues :
          inputs = [profile EXCEPT !["dry-run"] = d, !["validate-only"] = v,
                                   !["update-existing"] = u, !["fail-on-warning"] = f]
    /\ files \in Projects
    /\ context \in Contexts
    /\ NotStarted

\* catch (err): core.setFailed, then core.setOutput('status', 'error')
Catch(err) ==
    /\ failed' = err
    /\ outputs' = [outputs EXCEPT !["status"] = Str(<<"error">>)]
    /\ pc' = "done"

\* Lines 301-319: the inputs are read, the project path is checked and the
\* manifest is resolved.
ReadMetadata ==
    /\ pc = "start"
    /\ UNCHANGED <<inputs, files, context, payload, validation, listingId, requests, responses>>
    /\ IF ~Truthy(getInput(inputs, "api-key"))
       THEN Catch([kind |-> "InputRequired"]) /\ UNCHANGED <<metadata, log>>
       ELSE IF ~files.dir
       THEN Catch([kind |-> "ProjectPathMissing"]) /\ UNCHANGED <<metadata, log>>
       ELSE LET r == readProjectMetadata(files)
            IN /\ log' = log \o r.log
               /\ IF r.t = "throw"
                  THEN Catch(r.error) /\ UNCHANGED metadata
                  ELSE /\ metadata' = r.v
                       /\ pc' = "build"
                       /\ UNCHANGED <<outputs, failed>>

\* Lines 321-350
BuildPayload ==
    /\ pc = "build"
    /\ payload' = buildPayload(inputs, metadata, context)
    /\ pc' = "validate"
    /\ UNCHANGED <<inputs, files, context, metadata, validation, listingId, requests,
                   responses, outputs, failed, log>>

\* Lines 352-369
Validate ==
    /\ pc = "validate"
    /\ LET result == validatePayload(payload)
           reported == IF Len(result.warnings) > 0
                       THEN [outputs EXCEPT !["warnings"] = Stringify(result.warnings)]
                       ELSE outputs
       IN /\ validation' = result
          /\ IF Len(result.errors) > 0
             THEN /\ failed' = [kind |-> "ValidationFailed", errors |-> result.errors]
                  /\ outputs' = [reported EXCEPT !["status"] = Str(<<"error">>)]
                  /\ pc' = "done"
             ELSE IF failOnWarning(inputs) /\ Len(result.warnings) > 0
             THEN /\ failed' = [kind |-> "FailOnWarning", count |-> Len(result.warnings)]
                  /\ outputs' = [reported EXCEPT !["status"] = Str(<<"error">>)]
                  /\ pc' = "done"
             ELSE /\ outputs' = reported
                  /\ pc' = "dispatch"
                  /\ UNCHANGED failed
    /\ UNCHANGED <<inputs, files, context, metadata, payload, listingId, requests,
                   responses, log>>

\* Lines 371-409: validate-only and dry-run return; otherwise the lookup is
\* sent, or, with update-existing 'false', the create.
Dispatch ==
    /\ pc = "dispatch"
    /\ UNCHANGED <<inputs, files, context, metadata, payload, validation, responses,
                   failed, log>>
    /\ IF validateOnly(inputs)
       THEN /\ outputs' = [outputs EXCEPT !["status"] = Str(<<"validated">>),
                                          !["listing-id"] = Str(<<>>),
                                          !["listing-url"] = Str(<<>>)]
            /\ pc' = "done"
            /\ UNCHANGED <<listingId, requests>>
       ELSE IF dryRun(inputs)
       THEN /\ outputs' = [outputs EXCEPT !["status"] = Str(<<"dry-run">>),
                                          !["listing-id"] = Str(<<"dry-run">>),
                                          !["listing-url"] = Str(<<>>)]
            /\ pc' = "done"
            /\ UNCHANGED <<listingId, requests>>
       ELSE IF updateExisting(inputs)
       THEN /\ requests' = Append(requests, lookupRequest(payload.name, marketplaceApi(inputs)))
            /\ pc' = "lookup"
            /\ UNCHANGED <<listingId, outputs>>
       ELSE /\ listingId' = Null
            /\ requests' = Append(requests, submitRequest(payload, Null, marketplaceApi(inputs)))
            /\ pc' = "submit"
            /\ UNCHANGED outputs

\* The lookup request settles: findExistingListing returns and lines 404-409
\* send the submit request.
LookupSettled ==
    /\ pc = "lookup"
    /\ \E answer \in LookupAnswers :
         LET settled == httpsRequest(requests[Len(requests)].url, answer)
         IN /\ responses' = Append(responses, answer)
            /\ IF settled.t = "uncaught"
               THEN /\ pc' = "crashed"
                    /\ UNCHANGED <<listingId, requests>>
               ELSE LET id == findExistingListing(settled)
                    IN /\ listingId' = id
                       /\ requests' = Append(requests,
                                             submitRequest(payload, id, marketplaceApi(inputs)))
                       /\ pc' = "submit"
    /\ UNCHANGED <<inputs, files, context, metadata, payload, validation, outputs, failed, log>>

\* SubmitSettled sending the request once more after a rejection
SubmitSettledRetryOnce ==
    /\ pc = "submit"
    /\ UNCHANGED <<inputs, files, context, metadata, payload, validation, listingId, log>>
    /\ \E answer \in SubmitAnswers :
         LET settled == httpsRequest(requests[Len(requests)].url, answer)
         IN /\ responses' = Append(responses, answer)
            /\ IF settled.t = "uncaught"
               THEN pc' = "crashed" /\ UNCHANGED <<outputs, failed, requests>>
               ELSE IF settled.t = "reject" /\ Len(responses) < Len(requests)
               THEN /\ requests' = Append(requests, requests[Len(requests)])
                    /\ UNCHANGED <<pc, outputs, failed>>
               ELSE IF settled.t = "reject"
               THEN Catch(settled.error) /\ UNCHANGED requests
               ELSE LET result == settled.v.body
                    IN /\ UNCHANGED requests
                       /\ IF Throws(result)
                          THEN Catch([kind |-> "TypeError"])
                          ELSE LET id == finalId(result, listingId)
                               IN /\ outputs' =
                                       [outputs EXCEPT
                                          !["listing-id"] = id,
                                          !["listing-url"] = Str(publicUrl(marketplaceApi(inputs), id)),
                                          !["status"] = IF Truthy(listingId)
                                                        THEN Str(<<"updated">>)
                                                        ELSE Str(<<"created">>)]
                                  /\ pc' = "done"
                                  /\ UNCHANGED failed

\* The submit request settles: lines 409-428.
SubmitSettled ==
    /\ pc = "submit"
    /\ UNCHANGED <<inputs, files, context, metadata, payload, validation, listingId,
                   requests, log>>
    /\ \E answer \in SubmitAnswers :
         LET settled == httpsRequest(requests[Len(requests)].url, answer)
         IN /\ responses' = Append(responses, answer)
            /\ IF settled.t = "uncaught"
               THEN pc' = "crashed" /\ UNCHANGED <<outputs, failed>>
               ELSE IF settled.t = "reject"
               THEN Catch(settled.error)
               ELSE LET result == settled.v.body
                    IN IF Throws(result)
                       THEN Catch([kind |-> "TypeError"])
                       ELSE LET id == finalId(result, listingId)
                            IN /\ outputs' =
                                    [outputs EXCEPT
                                       !["listing-id"] = id,
                                       !["listing-url"] = Str(publicUrl(marketplaceApi(inputs), id)),
                                       !["status"] = IF Truthy(listingId)
                                                     THEN Str(<<"updated">>)
                                                     ELSE Str(<<"created">>)]
                               /\ pc' = "done"
                               /\ UNCHANGED failed

Next ==
    \/ ReadMetadata
    \/ BuildPayload
    \/ Validate
    \/ Dispatch
    \/ LookupSettled
    \/ SubmitSettled

Spec == Init /\ [][Next]_vars

----------------------------------------------------------------------------
(* Properties of a run *)

StatusIs(word) == outputs["status"] = Str(<<word>>)
KeyGiven == inputs["api-key"] # <<>>
RequiredNames == {"name", "version", "description", "category", "repository"}
Blanks == {" ", "\t", "\n"}
NonBlankText(v) == v.k = "string" /\ \E i \in 1..Len(v.s) : v.s[i] \notin Blanks
IsSubmit(req) == req.method \in {"POST", "PUT"}
IsLookup(req) == req.method = "GET"

\* C1: a request, lookup or submit, is only ever issued after validatePayload
\* has run on the built payload and returned no error, and every payload sent
\* has name, version, description, category and repository non-empty after
\* trimming.
C1_ValidatedBeforeAnyRequest ==
    requests # <<>> =>
        /\ validation # None
        /\ validation.errors = <<>>
        /\ \A i \in 1..Len(requests) :
              /\ \A f \in RequiredNames : NonBlankText(payload[f])
              /\ IsSubmit(requests[i]) => requests[i].body = payload

C1_Witness ==
    /\ pc = "submit"
    /\ Len(requests) = 2
    /\ IsLookup(requests[1]) /\ IsSubmit(requests[2])
    /\ validation.warnings # <<>>

\* C2: the readers are tried in the order package.json, pyproject.toml,
\* Cargo.toml; the record returned is that of the first manifest present, no
\* later reader runs once an earlier manifest was found, and the "no
\* supported manifest" error is raised exactly when none of the three exists.
C2_FirstManifestWins ==
    (pc # "start" /\ KeyGiven /\ files.dir) =>
        /\ files.pkg.exists =>
              /\ log = <<"Found package.json">> \/ (log = <<>> /\ ~files.pkg.json)
              /\ metadata # None =>
                    /\ metadata.name = Get(files.pkg.doc, "name")
                    /\ metadata.license = Get(files.pkg.doc, "license")
        /\ (~files.pkg.exists /\ files.py.exists) =>
              /\ log = <<"Found pyproject.toml">>
              /\ metadata # None
              /\ metadata.name = Str(<<"py-tool">>)
        /\ (~files.pkg.exists /\ ~files.py.exists /\ files.cargo.exists) =>
              /\ log = <<"Found Cargo.toml">>
              /\ metadata # None
              /\ metadata.name = Str(<<"cargo-tool">>)
        /\ (failed = [kind |-> "NoManifest"]) <=>
              (~files.pkg.exists /\ ~files.py.exists /\ ~files.cargo.exists)

C2_Witness ==
    /\ pc = "build"
    /\ files.pkg.exists /\ files.py.exists /\ files.cargo.exists
    /\ metadata.name = Str(<<"pkg-tool">>)

\* C3: a package.json that exists but does not parse makes the run fail with
\* the parse error: no other manifest is read, no request is issued and the
\* status is 'error'.
C3_BrokenPackageJsonAborts ==
    (pc # "start" /\ KeyGiven /\ files.dir /\ files.pkg.exists /\ ~files.pkg.json) =>
        /\ pc = "done"
        /\ failed = [kind |-> "ParseError"]
        /\ StatusIs("error")
        /\ metadata = None
        /\ log = <<>>
        /\ requests = <<>>

C3_Witness ==
    /\ pc = "done"
    /\ files.pkg.exists /\ ~files.pkg.json
    /\ files.py.exists /\ files.cargo.exists
    /\ failed = [kind |-> "ParseError"]

DryRunSet == inputs["dry-run"] = <<"true">>
ValidateOnlySet == inputs["validate-only"] = <<"true">>
FailOnWarningSet == inputs["fail-on-warning"] = <<"true">>
UpdateExistingOff == inputs["update-existing"] = <<"false">>
NoErrors == validation # None /\ validation.errors = <<>>

\* C4 as stated: with dry-run enabled and a payload without validation
\* errors, the run issues no request and ends with status 'dry-run'.
C4_DryRunAlwaysEndsDryRun ==
    (pc = "done" /\ DryRunSet /\ NoErrors) =>
        (requests = <<>> /\ StatusIs("dry-run"))

\* C4 amended: with dry-run enabled the run issues no request; with a
\* payload without validation errors it ends with status 'dry-run' unless
\* validate-only is enabled too (then 'validated') or fail-on-warning is
\* enabled and a warning was raised (then 'error').
C4_DryRunNoRequest ==
    DryRunSet =>
        /\ requests = <<>>
        /\ (pc = "done" /\ NoErrors) =>
              IF FailOnWarningSet /\ validation.warnings # <<>> THEN StatusIs("error")
              ELSE IF ValidateOnlySet THEN StatusIs("validated")
              ELSE /\ StatusIs("dry-run")
                   /\ outputs["listing-id"] = Str(<<"dry-run">>)
                   /\ failed = None

C4_Witness ==
    /\ pc = "done"
    /\ DryRunSet /\ ~ValidateOnlySet /\ ~FailOnWarningSet
    /\ NoErrors /\ validation.warnings # <<>>
    /\ StatusIs("dry-run")

\* C5: with validate-only enabled no request is ever issued, whatever the
\* other options; when neither the validation nor anything before it failed
\* the run ends with status 'validated' and empty listing-id and listing-url.
C5_ValidateOnlyNeverSubmits ==
    ValidateOnlySet =>
        /\ requests = <<>>
        /\ pc \notin {"lookup", "submit", "crashed"}
        /\ (pc = "done" /\ failed = None) =>
              /\ StatusIs("validated")
              /\ outputs["listing-id"] = Str(<<>>)
              /\ outputs["listing-url"] = Str(<<>>)
        /\ (pc = "done" /\ NoErrors /\ ~(FailOnWarningSet /\ validation.warnings # <<>>)) =>
              failed = None

C5_Witness ==
    /\ pc = "done"
    /\ ValidateOnlySet /\ DryRunSet /\ ~UpdateExistingOff
    /\ StatusIs("validated")
    /\ validation.warnings # <<>>

ApiBase ==
    IF inputs["marketplace-url"] # <<>> THEN inputs["marketplace-url"]
    ELSE DEFAULT_MARKETPLACE_API
Is2xx(answer) == answer.t = "response" /\ answer.statusCode \in 200..299
\* a 2xx answer whose body is an object with a data array
HasDataArray(answer) ==
    /\ Is2xx(answer)
    /\ answer.body.json
    /\ answer.body.val.k = "object"
    /\ "data" \in DOMAIN answer.body.val.f
    /\ answer.body.val.f.data.k = "array"
LookupDone == requests # <<>> /\ IsLookup(requests[1]) /\ responses # <<>>

\* C6: every failure of the lookup (a transport error, a non-2xx answer, a
\* 2xx answer without the data array) makes findExistingListing return
\* absent without raising, and the run goes on to a create, POST /listings.
C6_LookupFailureFallsBackToCreate ==
    (LookupDone /\ ~HasDataArray(responses[1])) =>
        /\ listingId = Null
        /\ Len(requests) >= 2
        /\ requests[2].method = "POST"
        /\ requests[2].url = ApiBase \o <<"/listings">>

\* C6 for every failure but a non-2xx answer whose body is the JSON null
C6_ExceptNullErrorBody ==
    (LookupDone /\ ~HasDataArray(responses[1])
       /\ ~(responses[1].t = "response" /\ ~Is2xx(responses[1])
            /\ responses[1].body.json /\ responses[1].body.val = Null)) =>
        /\ listingId = Null
        /\ Len(requests) >= 2
        /\ requests[2].method = "POST"
        /\ requests[2].url = ApiBase \o <<"/listings">>

NonEmptyId(id) == id.k = "string" /\ id.s # <<>>
\* the id of the first listing of a well-shaped lookup answer, if it has one
AnsweredId(answer) ==
    IF HasDataArray(answer) /\ Len(answer.body.val.f.data.a) > 0
       /\ answer.body.val.f.data.a[1].k = "object"
       /\ "id" \in DOMAIN answer.body.val.f.data.a[1].f
    THEN answer.body.val.f.data.a[1].f.id
    ELSE Undefined

\* C7: the submit request is a PUT to /listings/{id} exactly when the lookup
\* before it returned a non-empty id, and a POST to /listings otherwise; a
\* run that succeeds reports 'updated' exactly after the PUT and 'created'
\* exactly after the POST.
C7_MethodFollowsLookup ==
    \A i \in 1..Len(requests) :
        IsSubmit(requests[i]) =>
            /\ NonEmptyId(listingId) <=> (i = 2 /\ NonEmptyId(AnsweredId(responses[1])))
            /\ NonEmptyId(listingId) => listingId = AnsweredId(responses[1])
            /\ IF NonEmptyId(listingId)
               THEN /\ i = 2
                    /\ requests[i].method = "PUT"
                    /\ requests[i].url = ApiBase \o <<"/listings", "/">> \o listingId.s
               ELSE /\ requests[i].method = "POST"
                    /\ requests[i].url = ApiBase \o <<"/listings">>
            /\ (pc = "done" /\ failed = None) =>
                  /\ StatusIs("updated") <=> requests[i].method = "PUT"
                  /\ StatusIs("created") <=> requests[i].method = "POST"

C7_Witness ==
    /\ pc = "done"
    /\ StatusIs("updated")
    /\ Len(requests) = 2
    /\ requests[2].method = "PUT"
    /\ responses[1] = Answer(200, Listings(MaxListings))
    /\ requests[2].url = DEFAULT_MARKETPLACE_API \o <<"/listings", "/", "L", "1">>

\* C8: with update-existing 'false' no lookup is issued and the only request
\* is the create, POST /listings; with any other value, unset included, the
\* lookup is issued and answered before the submit is sent.
C8_LookupOnlyWhenUpdating ==
    /\ UpdateExistingOff =>
          /\ Len(requests) <= 1
          /\ \A i \in 1..Len(requests) :
                /\ requests[i].method = "POST"
                /\ requests[i].url = ApiBase \o <<"/listings">>
    /\ ~UpdateExistingOff =>
          /\ requests # <<>> => IsLookup(requests[1])
          /\ \A i \in 1..Len(requests) : IsSubmit(requests[i]) => (i = 2 /\ responses # <<>>)

C8_Witness ==
    /\ UpdateExistingOff
    /\ pc = "done"
    /\ StatusIs("created")
    /\ Len(requests) = 1

SubmitAnswered ==
    /\ requests # <<>>
    /\ IsSubmit(requests[Len(requests)])
    /\ Len(responses) = Len(requests)
LastAnswer == responses[Len(responses)]
\* the detail the claim names for a body
ClaimedDetail(body) ==
    IF body.json /\ body.val.k = "object"
    THEN IF "message" \in DOMAIN body.val.f THEN body.val.f.message
         ELSE IF "error" \in DOMAIN body.val.f THEN body.val.f.error
         ELSE Stringify(body.val)
    ELSE IF body.json /\ body.val.k \in {"array", "null"} THEN Stringify(body.val)
    ELSE Str(SubSeq(body.raw, 1, IF Len(body.raw) < 200 THEN Len(body.raw) ELSE 200))
SubmitRefused ==
    SubmitAnswered /\ LastAnswer.t = "response" /\ ~Is2xx(LastAnswer)

\* C9: every non-2xx answer to the submit request, whatever its body, is
\* rejected with an error that carries the status code and a detail, and the
\* run ends as a failure with status 'error'.
C9_SubmitErrorReported ==
    SubmitRefused =>
        /\ pc = "done"
        /\ StatusIs("error")
        /\ failed # None
        /\ failed.kind = "Http"
        /\ failed.statusCode = LastAnswer.statusCode
        /\ failed.detail = ClaimedDetail(LastAnswer.body)

\* C9 for every body but the JSON null
C9_ExceptNullBody ==
    (SubmitRefused /\ ~(LastAnswer.body.json /\ LastAnswer.body.val = Null)) =>
        /\ pc = "done"
        /\ StatusIs("error")
        /\ failed # None
        /\ failed.kind = "Http"
        /\ failed.statusCode = LastAnswer.statusCode
        /\ failed.detail = ClaimedDetail(LastAnswer.body)

----------------------------------------------------------------------------
(* The payload builder on its own: every combination of overrides over      *)
(* manifests whose fields are missing, null, empty or set                    *)

MergedFields == {"name", "version", "description", "homepage", "repository", "license"}
OverridableFields == MergedFields \cup {"category", "pricing"}

BuildDocFull ==
    Obj([name |-> Str(<<"pkg-tool">>),
         version |-> Str(<<"1", ".", "2", ".", "3">>),
         description |-> Str(<<"A node tool">>),
         homepage |-> Str(<<"https://pkg.example">>),
         repository |-> Str(<<"https://github.com/a/b.git">>),
         license |-> Str(<<"ISC">>),
         category |-> Str(<<"games">>),
         pricing |-> Str(<<"paid">>)])

Without(doc, field) == Obj([g \in (DOMAIN doc.f) \ {field} |-> doc.f[g]])
With(doc, field, v) == Obj([doc.f EXCEPT ![field] = v])

BuildDocs ==
    {BuildDocFull, Obj(<<>>)}
    \cup {Without(BuildDocFull, f) : f \in MergedFields}
    \cup {With(BuildDocFull, f, v) : f \in MergedFields, v \in {Str(<<>>), Null}}

BuildProjects ==
    {[dir |-> TRUE, pkg |-> [exists |-> TRUE, json |-> TRUE, doc |-> d],
      py |-> [exists |-> FALSE], cargo |-> [exists |-> FALSE]] : d \in BuildDocs}
    \cup {[dir |-> TRUE, pkg |-> [exists |-> FALSE],
           py |-> [exists |-> TRUE, lines |-> PyLines], cargo |-> [exists |-> FALSE]],
          [dir |-> TRUE, pkg |-> [exists |-> FALSE],
           py |-> [exists |-> FALSE], cargo |-> [exists |-> TRUE, lines |-> CargoLines]]}

BuildInputs ==
    {[n \in InputNames |->
        IF n = "api-key" THEN <<"secret">>
        ELSE IF n \in chosen THEN <<"input-", n>>
        ELSE <<>>] : chosen \in SUBSET OverridableFields}

BuildRefs == Refs \cup {<<"refs/heads/", "refs/tags/", "x">>}

InitBuild ==
    /\ inputs \in BuildInputs
    /\ files \in BuildProjects
    /\ context \in {[ref |-> r, owner |-> "octo", repo |-> "widget", actor |-> "octocat"] :
                      r \in BuildRefs}
    /\ NotStarted

NextBuild ==
    \/ ReadMetadata
    \/ BuildPayload

SpecBuild == InitBuild /\ [][NextBuild]_vars

\* the ref with its first 'refs/tags/' taken out
RefWithoutTagsPart ==
    LET ref == context.ref
        at == {i \in 1..Len(ref) : ref[i] = "refs/tags/"}
    IN IF at = {} THEN ref
       ELSE LET i == CHOOSE j \in at : \A h \in at : j <= h
            IN SubSeq(ref, 1, i - 1) \o SubSeq(ref, i + 1, Len(ref))

ComputedDefault(f) ==
    CASE f = "version" -> RefWithoutTagsPart
      [] f = "repository" -> <<"https://github.com/", context.owner, "/", context.repo>>
      [] f = "license" -> <<"MIT">>
      [] OTHER -> <<>>

FixedLiterals ==
    /\ payload.category = (IF inputs["category"] # <<>> THEN Str(inputs["category"])
                           ELSE Str(<<"development">>))
    /\ payload.pricing = (IF inputs["pricing"] # <<>> THEN Str(inputs["pricing"])
                          ELSE Str(<<"free">>))

----------------------------------------------------------------------------
(* The tags of the payload: every short override over manifests with and    *)
(* without keywords                                                          *)

\* the longest tags override of the model, in tokens
MaxTagsLen == 4

TagTokens == {"a", "b", ",", " "}

RECURSIVE TextsUpTo(_, _)
TextsUpTo(tokens, n) ==
    IF n = 0 THEN {<<>>}
    ELSE LET shorter == TextsUpTo(tokens, n - 1)
         IN shorter \cup {Append(t, c) : t \in shorter, c \in tokens}

\* core.getInput hands the text over trimmed
TagOverrides == {t \in TextsUpTo(TagTokens, MaxTagsLen) : Trim(t) = t}

PkgKeywordsText == Obj([name |-> Str(<<"pkg-tool">>), keywords |-> Str(<<"near">>)])
PkgKeywordsNull == Obj([name |-> Str(<<"pkg-tool">>), keywords |-> Null])

TagProjects ==
    {[dir |-> TRUE, pkg |-> [exists |-> TRUE, json |-> TRUE, doc |-> d],
      py |-> [exists |-> FALSE], cargo |-> [exists |-> FALSE]] :
        d \in {PkgFull, PkgBare, PkgKeywordsText, PkgKeywordsNull}}
    \cup {[dir |-> TRUE, pkg |-> [exists |-> FALSE],
           py |-> [exists |-> TRUE, lines |-> PyLines], cargo |-> [exists |-> FALSE]],
          [dir |-> TRUE, pkg |-> [exists |-> FALSE],
           py |-> [exists |-> FALSE], cargo |-> [exists |-> TRUE, lines |-> CargoLines]]}

InitTags ==
    /\ \E t \in TagOverrides : inputs = [KeyOnly EXCEPT !["tags"] = t]
    /\ files \in TagProjects
    /\ context \in Contexts
    /\ NotStarted

NextTags ==
    \/ ReadMetadata
    \/ BuildPayload

SpecTags == InitTags /\ [][NextTags]_vars

CommasOf(s) == {i \in 1..Len(s) : s[i] = ","}
NthOf(S, k) == CHOOSE i \in S : Cardinality({j \in S : j < i}) = k - 1
\* the k-th comma-separated entry of s
EntryOf(s, k) ==
    LET commas == CommasOf(s)
        lo == IF k = 1 THEN 0 ELSE NthOf(commas, k - 1)
        hi == IF k = Cardinality(commas) + 1 THEN Len(s) + 1 ELSE NthOf(commas, k)
    IN SubSeq(s, lo + 1, hi - 1)
\* an entry without the blanks around it
Trimmed(e) ==
    LET keep == {i \in 1..Len(e) : e[i] \notin Blanks}
    IN IF keep = {} THEN <<>>
       ELSE SubSeq(e, CHOOSE i \in keep : \A j \in keep : i <= j,
                      CHOOSE i \in keep : \A j \in keep : j <= i)
EntriesOf(s) ==
    SelectSeq([k \in 1..(Cardinality(CommasOf(s)) + 1) |-> Trimmed(EntryOf(s, k))],
              LAMBDA e : e # <<>>)
\* the keywords as the manifest file gives them
ManifestKeywords ==
    IF files.pkg.exists
    THEN IF "keywords" \in DOMAIN files.pkg.doc.f /\ files.pkg.doc.f.keywords.k = "array"
         THEN files.pkg.doc.f.keywords.a
         ELSE <<>>
    ELSE IF files.py.exists THEN << <<"ai">>, <<"ml">> >>
    ELSE <<>>

\* C11: with a tags override the payload's tags are the override's
\* comma-separated entries, trimmed, the empty ones dropped, in order, and the
\* keywords of the manifest play no part (also when no entry is left); without
\* an override the tags are the manifest's keywords as they are, or empty.
C11_TagsFromOverrideElseKeywords ==
    payload # None =>
        /\ inputs["tags"] # <<>> => payload.tags = EntriesOf(inputs["tags"])
        /\ inputs["tags"] = <<>> => payload.tags = ManifestKeywords

C11_Witness ==
    /\ payload # None
    /\ inputs["tags"] = <<"b", " ", ",", "a">>
    /\ ManifestKeywords = << <<"near">>, <<"tool">> >>
    /\ payload.tags = << <<"b">>, <<"a">> >>

----------------------------------------------------------------------------
(* validatePayload on its own: payloads whose fields are absent, null,      *)
(* empty, blank or set                                                       *)

FieldValues == {Undefined, Null, Str(<<>>), Str(<<" ">>), Str(<<"x">>)}
VersionValues ==
    {Undefined, Str(<<>>), Str(<<" ">>), Str(<<"1", ".", "2">>), Str(<<"latest">>)}
OptionalValues == {Str(<<>>), Str(<<"x">>)}

ValidatePayloads ==
    [name : FieldValues,
     version : VersionValues,
     description : FieldValues,
     long_description : OptionalValues,
     category : FieldValues,
     homepage : OptionalValues,
     repository : FieldValues,
     license : OptionalValues,
     changelog : OptionalValues,
     pricing : {Str(<<"free">>)},
     min_near_version : {Str(<<>>)},
     tags : {<<>>},
     author : {Str(<<"octocat">>)},
     release_tag : {Str(<<"refs/heads/main">>)}]

\* run() stands before line 355 with a payload in hand
BeforeValidate ==
    /\ inputs = KeyOnly
    /\ files = [dir |-> TRUE, pkg |-> [exists |-> FALSE], py |-> [exists |-> FALSE],
                cargo |-> [exists |-> TRUE, lines |-> CargoLines]]
    /\ context = [ref |-> <<"refs/heads/main">>, owner |-> "octo", repo |-> "widget",
                   actor |-> "octocat"]
    /\ pc = "validate"
    /\ metadata = readFromCargo(files).v
    /\ validation = None
    /\ listingId = None
    /\ requests = <<>>
    /\ responses = <<>>
    /\ outputs = [n \in OutputNames |-> Unset]
    /\ failed = None
    /\ log = <<"Found Cargo.toml">>

InitValidate == BeforeValidate /\ payload \in ValidatePayloads

NextValidate == Validate

SpecValidate == InitValidate /\ [][NextValidate]_vars

RequiredOrder == <<"name", "version", "description", "category", "repository">>
OptionalNames == {"homepage", "long_description", "changelog", "license"}
PlaceOf(f) == CHOOSE i \in 1..Len(RequiredOrder) : RequiredOrder[i] = f
\* absent, or empty once trimmed
MissingIn(p, f) == ~NonBlankText(p[f])
MissingRequired == {f \in RequiredNames : MissingIn(payload, f)}
\* digits, a dot and a digit at the start of s
StartsDigitsDotDigit(s) ==
    \E i \in 1..(Len(s) - 2) :
        /\ \A h \in 1..i : s[h] \in {"0", "1", "2", "3", "4", "5", "6", "7", "8", "9"}
        /\ s[i + 1] = "."
        /\ s[i + 2] \in {"0", "1", "2", "3", "4", "5", "6", "7", "8", "9"}
\* a warning the payload gets whatever its required fields hold: an optional
\* field left out, or the format of the version it carries
BaselineWarning(w) ==
    \/ /\ w.kind = "optional"
       /\ w.field \in OptionalNames
       /\ MissingIn(payload, w.field)
    \/ /\ w.kind = "semver"
       /\ payload.version.k = "string"
       /\ payload.version.s # <<>>
       /\ ~StartsDigitsDotDigit(payload.version.s)

\* C12: validatePayload gives one error for each of name, version,
\* description, category, repository that is absent or empty once trimmed, in
\* that order, and no other error; a payload that lacks one required field
\* only gets the one error naming it and no warning beyond those for the
\* optional fields it leaves out; several violations end the run with one
\* failure that lists them all.
C12_OneErrorPerBlankRequiredField ==
    validation # None =>
        LET errors == validation.errors
        IN /\ Len(errors) = Cardinality(MissingRequired)
           /\ \A i \in 1..Len(errors) :
                 /\ errors[i].kind = "required"
                 /\ errors[i].field \in MissingRequired
           /\ \A i, j \in 1..Len(errors) :
                 i < j => PlaceOf(errors[i].field) < PlaceOf(errors[j].field)
           /\ \A f \in RequiredNames :
                 (MissingRequired = {f} /\ payload[f] = Undefined) =>
                    /\ errors = <<[kind |-> "required", field |-> f]>>
                    /\ \A i \in 1..Len(validation.warnings) :
                          BaselineWarning(validation.warnings[i])
           /\ Len(errors) > 0 =>
                 /\ pc = "done"
                 /\ StatusIs("error")
                 /\ failed = [kind |-> "ValidationFailed", errors |-> errors]

C12_Witness ==
    /\ validation # None
    /\ MissingRequired = {"name", "repository", "version"}
    /\ payload.name = Str(<<" ">>)
    /\ validation.errors = <<[kind |-> "required", field |-> "name"],
                             [kind |-> "required", field |-> "version"],
                             [kind |-> "required", field |-> "repository"]>>
    /\ failed # None /\ failed.kind = "ValidationFailed" /\ Len(failed.errors) = 3

----------------------------------------------------------------------------
(* validatePayload over version strings                                     *)

\* the longest version string of the model, in characters
MaxVersionLen == 4

VersionTokens == {"1", "9", ".", "v", " "}

VersionPayloads ==
    [name : {Str(<<"x">>)},
     version : {Str(t) : t \in TextsUpTo(VersionTokens, MaxVersionLen)},
     description : {Str(<<>>), Str(<<"x">>)},
     long_description : {Str(<<"x">>)},
     category : {Str(<<"development">>)},
     homepage : OptionalValues,
     repository : {Str(<<"x">>)},
     license : {Str(<<"MIT">>)},
     changelog : {Str(<<"x">>)},
     pricing : {Str(<<"free">>)},
     min_near_version : {Str(<<>>)},
     tags : {<<>>},
     author : {Str(<<"octocat">>)},
     release_tag : {Str(<<"refs/heads/main">>)}]

InitVersion == BeforeValidate /\ payload \in VersionPayloads

NextVersion == Validate

SpecVersion == InitVersion /\ [][NextVersion]_vars

SemverWarnings ==
    {i \in 1..Len(validation.warnings) : validation.warnings[i].kind = "semver"}
ErrorsAreTheBlankFields ==
    /\ Len(validation.errors) = Cardinality(MissingRequired)
    /\ \A i \in 1..Len(validation.errors) : validation.errors[i].kind = "required"

\* C13 as stated: for every version string the semver warning is given if
\* and only if the string does not begin with digits, a dot and digits, and
\* the warning adds no error.
C13_WarnsIffNotSemver ==
    validation # None =>
        /\ SemverWarnings # {} <=> ~StartsDigitsDotDigit(payload.version.s)
        /\ ErrorsAreTheBlankFields

\* C13 amended: the same for every version string that is not empty; the
\* empty version string gets no semver warning.
C13_WarnsIffNonEmptyAndNotSemver ==
    validation # None =>
        /\ SemverWarnings # {} <=>
              (payload.version.s # <<>> /\ ~StartsDigitsDotDigit(payload.version.s))
        /\ Cardinality(SemverWarnings) <= 1
        /\ ErrorsAreTheBlankFields

C13_Witness ==
    /\ validation # None
    /\ payload.version = Str(<<"v", "1", ".", "9">>)
    /\ SemverWarnings # {}
    /\ validation.errors = <<>>
    /\ pc = "dispatch"

----------------------------------------------------------------------------
(* Warnings and fail-on-warning                                             *)

HasWarnings == validation # None /\ validation.warnings # <<>>
StatusWritten == outputs["status"] # Unset
SubmitSucceeded ==
    /\ SubmitAnswered
    /\ Is2xx(LastAnswer)
    /\ ~(LastAnswer.body.json /\ LastAnswer.body.val = Null)
\* where a run without validation errors and without fail-on-warning ends,
\* told from its options and the remote's answers alone
OutcomeFromOptionsAndAnswers ==
    IF ValidateOnlySet THEN StatusIs("validated") /\ requests = <<>>
    ELSE IF DryRunSet THEN StatusIs("dry-run") /\ requests = <<>>
    ELSE /\ requests # <<>>
         /\ IsLookup(requests[1]) <=> ~UpdateExistingOff
         /\ IsSubmit(requests[Len(requests)])
         /\ Len(requests) = (IF UpdateExistingOff THEN 1 ELSE 2)
         /\ IF SubmitSucceeded
            THEN StatusIs("created") \/ StatusIs("updated")
            ELSE StatusIs("error") /\ failed.kind \in {"Network", "Http", "TypeError"}

\* C14: without fail-on-warning the warnings change nothing: the run goes on
\* past validation, and its status and requests are those its options and the
\* remote's answers give, warnings or not.  With fail-on-warning, no error and
\* at least one warning, the run fails with the number of warnings, ends with
\* status 'error' and sends nothing.
C14_WarningsFatalOnlyOnRequest ==
    /\ (~FailOnWarningSet /\ NoErrors) =>
          /\ pc # "validate"
          /\ failed # None => failed.kind # "FailOnWarning"
          /\ pc = "dispatch" => failed = None /\ ~StatusWritten /\ requests = <<>>
          /\ pc = "done" => OutcomeFromOptionsAndAnswers
    /\ (FailOnWarningSet /\ NoErrors /\ HasWarnings) =>
          /\ pc = "done"
          /\ failed = [kind |-> "FailOnWarning", count |-> Len(validation.warnings)]
          /\ StatusIs("error")
          /\ requests = <<>>
          /\ outputs["listing-id"] = Unset

C14_Witness ==
    /\ FailOnWarningSet
    /\ NoErrors
    /\ Len(validation.warnings) = 2
    /\ failed # None /\ failed.kind = "FailOnWarning" /\ failed.count = 2
    /\ StatusIs("error")
    /\ requests = <<>>

----------------------------------------------------------------------------
(* How a run ends                                                           *)

FinalStatuses ==
    {Str(<<"validated">>), Str(<<"dry-run">>), Str(<<"created">>), Str(<<"updated">>),
     Str(<<"error">>)}
SuccessStatuses == FinalStatuses \ {Str(<<"error">>)}
\* run() has returned, or the process has died of an uncaught exception
Ended == pc \in {"done", "crashed"}
NullBody(answer) == answer.t = "response" /\ answer.body.json /\ answer.body.val = Null
\* some request was answered non-2xx with the body null
RefusedWithNull ==
    \E i \in 1..Len(responses) : ~Is2xx(responses[i]) /\ NullBody(responses[i])

\* C15: once a run has ended (and every run does, see C15_StepsAdvance) the
\* status output is written and is one of 'validated', 'dry-run', 'created',
\* 'updated', 'error', whatever the options, the manifests and the remote's
\* answers.
C15_EndsWithStatus ==
    Ended => outputs["status"] \in FinalStatuses

\* C15 for the runs in which no request is answered non-2xx with the body null
C15_ExceptNullErrorBody ==
    /\ (Ended /\ ~RefusedWithNull) => outputs["status"] \in FinalStatuses
    /\ pc = "crashed" <=> RefusedWithNull
    /\ ~Ended => outputs["status"] = Unset

\* how far run() has come
Rank(at) ==
    CASE at = "start" -> 0
      [] at = "build" -> 1
      [] at = "validate" -> 2
      [] at = "dispatch" -> 3
      [] at = "lookup" -> 4
      [] at = "submit" -> 5
      [] OTHER -> 6

\* every step takes run() further and nothing follows its end: a run has at
\* most six steps
C15_StepsAdvance == [][Rank(pc') > Rank(pc)]_vars

ManifestUnreadable ==
    /\ files.dir
    /\ \/ files.pkg.exists /\ ~files.pkg.json
       \/ ~files.pkg.exists /\ ~files.py.exists /\ ~files.cargo.exists
FatalRaised ==
    /\ KeyGiven
    /\ pc # "start"
    /\ \/ ~files.dir
       \/ ManifestUnreadable
       \/ validation # None /\ validation.errors # <<>>
       \/ FailOnWarningSet /\ NoErrors /\ HasWarnings
       \/ SubmitAnswered /\ LastAnswer.t = "error"
       \/ SubmitRefused
ReportedAsError ==
    /\ pc = "done"
    /\ failed # None
    /\ StatusIs("error")
    /\ outputs["listing-id"] = Unset
    /\ outputs["listing-url"] = Unset

\* C16: a missing project path, a manifest that cannot be parsed, no manifest,
\* validation errors, fail-on-warning, a transport error or a non-2xx answer
\* of the submit all reach run()'s catch, which reports the failure and sets
\* status 'error'; no success status, listing-id or listing-url is written in
\* such a run; and a run whose submit was answered 2xx does not end 'error'.
C16_FatalErrorsReachHandler ==
    /\ FatalRaised => ReportedAsError
    /\ (SubmitAnswered /\ Is2xx(LastAnswer)) => ~StatusIs("error")

\* C16 for the answers whose body is not null
C16_ExceptNullBodies ==
    /\ (FatalRaised /\ ~(SubmitAnswered /\ NullBody(LastAnswer))) => ReportedAsError
    /\ (SubmitAnswered /\ Is2xx(LastAnswer) /\ ~NullBody(LastAnswer)) => ~StatusIs("error")
    /\ StatusIs("error") => failed # None /\ outputs["listing-id"] = Unset

Lookups == {i \in 1..Len(requests) : IsLookup(requests[i])}
Submits == {i \in 1..Len(requests) : IsSubmit(requests[i])}
AtMostOneOfEach ==
    /\ Cardinality(Lookups) <= 1
    /\ Cardinality(Submits) <= 1
    /\ \A i \in Lookups, j \in Submits : i < j /\ Len(responses) >= i
    /\ \A i, j \in 1..Len(requests) : i # j => requests[i] # requests[j]

\* C17: a run issues at most one lookup and at most one submit, the lookup is
\* answered before the submit is sent, no request is sent twice, and nothing
\* is sent once the submit has been answered.
C17_OneLookupOneSubmitNoRetry ==
    [][/\ AtMostOneOfEach'
       /\ requests' # requests => Len(requests') = Len(requests) + 1
       /\ SubmitAnswered => requests' = requests
       /\ SubmitAnswered' => Ended']_vars

\* a lookup and an update were sent and the update failed
C17_Witness ==
    /\ Len(requests) = 2
    /\ IsLookup(requests[1])
    /\ requests[2].method = "PUT"
    /\ Len(responses) = 2
    /\ ~Is2xx(responses[2])
    /\ pc = "done"
    /\ StatusIs("error")

----------------------------------------------------------------------------
(* The manifest readers over package.json documents of every shape          *)

PkgNullAuthor ==
    Obj([name |-> Str(<<"pkg-tool">>),
         version |-> Str(<<"1", ".", "2", ".", "3">>),
         repository |-> Str(<<"https://github.com/a/b.git">>),
         author |-> Null])

\* repository given as an object that has no url
PkgRepositoryNoUrl ==
    Obj([name |-> Str(<<"pkg-tool">>), repository |-> Obj([type |-> Str(<<"git">>)])])

ManifestDocs ==
    {PkgFull, PkgBare, PkgBlank, PkgNullRepository, PkgNullAuthor, PkgRepositoryNoUrl,
     PkgKeywordsText, Obj(<<>>), Null, Arr(<<>>), Arr(<< <<"x">> >>), Num(42),
     Str(<<"text">>)}

ManifestProjects ==
    {[dir |-> TRUE, pkg |-> a, py |-> b, cargo |-> c] :
        a \in {[exists |-> FALSE], [exists |-> TRUE, json |-> FALSE]}
              \cup {[exists |-> TRUE, json |-> TRUE, doc |-> d] : d \in ManifestDocs},
        b \in PyFiles \cup {[exists |-> TRUE, lines |-> <<>>]},
        c \in CargoFiles \cup {[exists |-> TRUE, lines |-> <<>>]}}

InitManifest ==
    /\ inputs = KeyOnly
    /\ files \in ManifestProjects
    /\ context \in Contexts
    /\ NotStarted

NextManifest == ReadMetadata

SpecManifest == InitManifest /\ [][NextManifest]_vars

PkgParses == files.pkg.exists /\ files.pkg.json
\* the field of the package.json document, absent when the document is no
\* object or has no such field or holds null there
DocField(field) ==
    LET doc == files.pkg.doc
    IN IF doc.k = "object" /\ field \in DOMAIN doc.f /\ doc.f[field] # Null
       THEN doc.f[field]
       ELSE Undefined
\* the bare string, or what the object holds under sub
BareOrNested(x, sub) ==
    IF x.k = "string" THEN x
    ELSE IF x.k = "object" /\ sub \in DOMAIN x.f THEN x.f[sub]
    ELSE Undefined
MetadataReturned == pc = "build" /\ metadata # None /\ failed = None
NullInDoc ==
    LET doc == files.pkg.doc
    IN \/ doc = Null
       \/ /\ doc.k = "object"
          /\ \E field \in {"repository", "author"} :
                field \in DOMAIN doc.f /\ doc.f[field] = Null

\* C18: readFromPackageJson raises only for a file that is not JSON: for a
\* package.json that parses, whatever its shape, it returns a record whose
\* repository is the bare string or the nested url and whose author is the
\* bare string or the nested name; readFromPyproject and readFromCargo raise
\* for no content.
C18_OnlyUnparseableRaises ==
    pc # "start" =>
        /\ PkgParses =>
              /\ MetadataReturned
              /\ metadata.repository = BareOrNested(DocField("repository"), "url")
              /\ metadata.author = BareOrNested(DocField("author"), "name")
        /\ (files.pkg.exists /\ ~files.pkg.json) =>
              pc = "done" /\ failed = [kind |-> "ParseError"]
        /\ (~files.pkg.exists /\ (files.py.exists \/ files.cargo.exists)) => MetadataReturned

\* C18 for the documents that hold no null at the top, under repository or
\* under author
C18_ExceptNullValues ==
    pc # "start" =>
        /\ (PkgParses /\ ~NullInDoc) =>
              /\ MetadataReturned
              /\ metadata.repository = BareOrNested(DocField("repository"), "url")
              /\ metadata.author = BareOrNested(DocField("author"), "name")
        /\ (PkgParses /\ NullInDoc) => pc = "done" /\ failed = [kind |-> "TypeError"]
        /\ (files.pkg.exists /\ ~files.pkg.json) =>
              pc = "done" /\ failed = [kind |-> "ParseError"]
        /\ (~files.pkg.exists /\ (files.py.exists \/ files.cargo.exists)) => MetadataReturned

----------------------------------------------------------------------------
(* The outputs of a successful submit                                       *)

Accepted == SubmitAnswered /\ Is2xx(LastAnswer)
\* the id the body holds under its own id or under data.id, when not empty
IdIn(v) ==
    IF v.k = "object" /\ "id" \in DOMAIN v.f /\ NonEmptyId(v.f.id) THEN v.f.id
    ELSE Undefined
AcceptedBody == IF LastAnswer.body.json THEN LastAnswer.body.val ELSE Str(LastAnswer.body.raw)
ClaimedId ==
    LET top == IdIn(AcceptedBody)
        nested == IF AcceptedBody.k = "object" /\ "data" \in DOMAIN AcceptedBody.f
                  THEN IdIn(AcceptedBody.f.data)
                  ELSE Undefined
    IN IF top # Undefined THEN top
       ELSE IF nested # Undefined THEN nested
       ELSE IF NonEmptyId(listingId) THEN listingId
       ELSE Str(<<"unknown">>)

\* C19: after a 2xx answer to the submit, whatever its body, the run succeeds
\* and listing-id is the body's id, else the id under data, else the id the
\* lookup found, else 'unknown'; it is never empty.
C19_ListingIdAfterAccept ==
    Accepted =>
        /\ pc = "done"
        /\ StatusIs("created") \/ StatusIs("updated")
        /\ outputs["listing-id"] = ClaimedId
        /\ NonEmptyId(outputs["listing-id"])

\* C19 for every 2xx answer but the one whose body is null
C19_ExceptNullBody ==
    (Accepted /\ ~NullBody(LastAnswer)) =>
        /\ pc = "done"
        /\ StatusIs("created") \/ StatusIs("updated")
        /\ outputs["listing-id"] = ClaimedId
        /\ NonEmptyId(outputs["listing-id"])

----------------------------------------------------------------------------
(* The run over marketplace base URLs                                       *)

BaseUrls ==
    {<<>>,
     <<"https://cat.example", "/v1">>,
     <<"https://cat.example", "/api">>,
     <<"https://cat.example", "/v1", "/api">>,
     <<"https://cat.example", "/v1", "/api", "/v1">>,
     <<"https://cat.example", "/v1", "/">>}

InitUrl ==
    /\ \E url \in BaseUrls, u \in UpdateExistingValues :
          inputs = [KeyOnly EXCEPT !["marketplace-url"] = url, !["update-existing"] = u]
    /\ files = [dir |-> TRUE, pkg |-> [exists |-> TRUE, json |-> TRUE, doc |-> PkgFull],
                py |-> [exists |-> FALSE], cargo |-> [exists |-> FALSE]]
    /\ context \in Contexts
    /\ NotStarted

NextUrl ==
    \/ ReadMetadata
    \/ BuildPayload
    \/ Validate
    \/ Dispatch
    \/ LookupSettled
    \/ SubmitSettled

SpecUrl == InitUrl /\ [][NextUrl]_vars

ConfiguredBase ==
    IF inputs["marketplace-url"] # <<>> THEN inputs["marketplace-url"]
    ELSE <<"https://market.near.ai", "/v1">>
\* s without the '/v1' it ends in, s itself when it does not end in one
WithoutV1Suffix(s) ==
    IF s # <<>> /\ s[Len(s)] = "/v1" THEN SubSeq(s, 1, Len(s) - 1) ELSE s
Succeeded == pc = "done" /\ (StatusIs("created") \/ StatusIs("updated"))
V1OnlyAtEnd(s) == \A i \in 1..Len(s) : s[i] = "/v1" => i = Len(s)

\* C20: after a successful submit listing-url is the configured base URL
\* without its trailing '/v1', then '/listing/', then the listing id, and
\* nothing else of the base URL is changed, for every base URL.
C20_ListingUrlStripsSuffix ==
    Succeeded =>
        outputs["listing-url"] =
            Str(WithoutV1Suffix(ConfiguredBase) \o <<"/listing/">>
                \o outputs["listing-id"].s)

\* C20 for the base URLs that hold '/v1' at their end only, or not at all
C20_WhenV1OnlyAtEnd ==
    (Succeeded /\ V1OnlyAtEnd(ConfiguredBase)) =>
        outputs["listing-url"] =
            Str(WithoutV1Suffix(ConfiguredBase) \o <<"/listing/">>
                \o outputs["listing-id"].s)

====
